---- MODULE Spec2Model ----
(***************************************************************************)
(* ngx-restful: BaseService (get/post/put/delete, handleError) and         *)
(* RestService (query, getAll, getOne, createOne, updateOne, deleteOne)    *)
(* over an injected HttpClient.  A call builds a cold producer around one  *)
(* transport request; a subscription sends the request and observes the    *)
(* transport's events through pipe(map, catchError(this.handleError)).     *)
(***************************************************************************)
EXTENDS Integers, Sequences, FiniteSets, TLC

VARIABLES services, calls, subs, network, input

vars == <<services, calls, subs, network, input>>

(* ------------------------------ bounds --------------------------------- *)

MaxCalls == 2
MaxSubs == 2

(* --------------------------- JavaScript values ------------------------- *)

\* string | null | undefined, the values of a `path` argument
Str(s) == [t |-> "string", v |-> s]
PathNull == [t |-> "null", v |-> ""]
PathUndefined == [t |-> "undefined", v |-> ""]

\* number | null | undefined, the values of an `id`
Num(n) == [t |-> "number", n |-> n]
IdNull == [t |-> "null", n |-> 0]
IdUndefined == [t |-> "undefined", n |-> 0]

\* an object literal is the set of its <<key, value>> pairs; the value of a
\* key of an options bag is itself an object of string pairs
Obj(o) == [t |-> "object", obj |-> o]
OptUndefined == [t |-> "undefined", obj |-> {}]
EmptyObject == Obj({})
JsonHeaders == {<<"Content-Type", "application/json">>}
OptParams == Obj({<<"params", {<<"page", "1">>}>>})
OptAccept == Obj({<<"headers", {<<"Accept", "text/plain">>}>>})

\* a model (or request body): object with an `id` property | null | undefined
Model(i) == [t |-> "object", id |-> i, name |-> "article"]
ModelNull == [t |-> "null", id |-> IdUndefined, name |-> ""]
ModelUndefined == [t |-> "undefined", id |-> IdUndefined, name |-> ""]
NoBody == [t |-> "none", id |-> IdUndefined, name |-> ""]

\* values travelling on a producer's channels: responses and errors
Response == [t |-> "response", hasMessage |-> FALSE, message |-> "", v |-> "payload"]
ErrNull == [t |-> "null", hasMessage |-> FALSE, message |-> "", v |-> ""]
ErrUndefined == [t |-> "undefined", hasMessage |-> FALSE, message |-> "", v |-> ""]
ErrString(s) == [t |-> "string", hasMessage |-> FALSE, message |-> "", v |-> s]
ErrObject(m) == [t |-> "object", hasMessage |-> TRUE, message |-> m, v |-> "HttpErrorResponse"]
ErrPlain == [t |-> "object", hasMessage |-> FALSE, message |-> "", v |-> "status:500"]
TypeError == [t |-> "TypeError", hasMessage |-> TRUE, message |-> "Cannot read property of null", v |-> ""]
NoValue == [t |-> "none", hasMessage |-> FALSE, message |-> "", v |-> ""]

\* x != null (loose): false for null and for undefined
NotNullish(x) == x.t \notin {"null", "undefined"}

\* mutant: the default's keys are merged into a supplied options object
DefaultParamMerged(arg, dflt) ==
    IF arg.t = "undefined" THEN dflt
    ELSE IF arg.t = "object" /\ dflt.t = "object" THEN Obj(arg.obj \cup dflt.obj)
    ELSE arg

\* a default parameter value applies to an omitted (undefined) argument only
DefaultParam(arg, dflt) == IF arg.t = "undefined" THEN dflt ELSE arg

\* '/' + id: string concatenation converts the number to its decimal form
NumberToString(n) == ToString(n)

(* --------------------------- service classes --------------------------- *)

ServiceIds == {"A", "B"}

\* getBaseUrlPath() of each concrete service
getBaseUrlPath(s) == IF s = "A" THEN "api/articles" ELSE "api/users"

\* mutant: one handler shared by every service
HandlerShared(s) == "default"

\* which handleError the class of a service carries: ArticleService (A)
\* overrides it and forwards the error itself, B inherits BaseService's
HandlerOf(s) == IF s = "A" THEN "forward" ELSE "default"

\* the fields of a RestService instance after its constructor
NewService == [http |-> "HttpClient", headers |-> JsonHeaders]

(* ----------------------- requests and call results --------------------- *)

Request(verb, url, body, options) ==
    [verb |-> verb, url |-> url, body |-> body, options |-> options]
NoRequest == Request("none", "", NoBody, OptUndefined)

\* a call either returns a producer wrapping one transport request or
\* throws synchronously
Producer(req) == [outcome |-> "producer", req |-> req, thrown |-> NoValue]
Throws(e) == [outcome |-> "throw", req |-> NoRequest, thrown |-> e]

(* ------------------------------ BaseService ---------------------------- *)

get(self, path, options) ==
    Producer(Request("GET", path.v, NoBody, DefaultParam(options, EmptyObject)))

post(self, path, body, options) ==
    Producer(Request("POST", path.v, body, DefaultParam(options, EmptyObject)))

put(self, path, body, options) ==
    Producer(Request("PUT", path.v, body, DefaultParam(options, EmptyObject)))

delete(self, path, options) ==
    Producer(Request("DELETE", path.v, NoBody, DefaultParam(options, EmptyObject)))

\* error.message: reading a property of null or undefined throws
MessageThrows(error) == error.t \in {"null", "undefined"}
MessageOf(error) == IF error.hasMessage THEN error.message ELSE ""

\* handleError(error): the observable it returns, or the exception it raises
ThrowError(v) == [threw |-> FALSE, value |-> v]
Raised(v) == [threw |-> TRUE, value |-> v]

handleError(error) ==
    IF MessageThrows(error) THEN Raised(TypeError)
    ELSE IF MessageOf(error) # "" THEN ThrowError(ErrString(MessageOf(error)))
    ELSE ThrowError(error)

\* the override of ArticleService: forward the error
handleErrorForward(error) == ThrowError(error)

HandleErrorOf(s, error) ==
    IF HandlerOf(s) = "forward" THEN handleErrorForward(error) ELSE handleError(error)

(* ------------------------------ RestService ---------------------------- *)

\* path != null ? path : this.getBaseUrlPath(), with path defaulting to null
FinalPath(s, path) ==
    LET p == DefaultParam(path, PathNull)
    IN  IF NotNullish(p) THEN p.v ELSE getBaseUrlPath(s)

\* mutant: (id ? '/' + id : ''), a truthiness test that drops id 0
IdSuffixTruthy(id) ==
    IF NotNullish(id) /\ id.n # 0 THEN "/" \o NumberToString(id.n) ELSE ""

\* (id != null ? '/' + id : '')
IdSuffix(id) == IF NotNullish(id) THEN "/" \o NumberToString(id.n) ELSE ""

\* mutant: no default headers
DefaultOptionsEmpty(self) == EmptyObject

\* {headers: this.headers}
DefaultOptions(self) == Obj({<<"headers", self.headers>>})

query(s, self, options, path) ==
    Producer(Request("GET", FinalPath(s, path), NoBody,
                     DefaultParam(options, EmptyObject)))

\* mutant: this.query({}), the path argument dropped
getAllNoPath(s, self, path) == query(s, self, EmptyObject, PathNull)

getAll(s, self, path) == query(s, self, EmptyObject, DefaultParam(path, PathNull))

getOne(s, self, id, options, path) ==
    Producer(Request("GET", FinalPath(s, path) \o IdSuffix(id), NoBody,
                     DefaultParam(options, EmptyObject)))

createOne(s, self, model, options, path) ==
    Producer(Request("POST", FinalPath(s, path), model,
                     DefaultParam(options, DefaultOptions(self))))

\* model['id'] throws a TypeError when model is null or undefined
updateOne(s, self, model, options, path) ==
    IF ~NotNullish(model) THEN Throws(TypeError)
    ELSE Producer(Request("PUT", FinalPath(s, path) \o IdSuffix(model.id), model,
                          DefaultParam(options, DefaultOptions(self))))

deleteOne(s, self, id, options, path) ==
    Producer(Request("DELETE", FinalPath(s, path) \o IdSuffix(id), NoBody,
                     DefaultParam(options, DefaultOptions(self))))

\* mutant: a call keeps the headers of its options as the instance's defaults
AfterCallKeepsHeaders(self, in) ==
    IF \E kv \in in.options.obj : kv[1] = "headers"
    THEN [self EXCEPT !.headers =
              (CHOOSE kv \in in.options.obj : kv[1] = "headers")[2]]
    ELSE self

\* no method assigns a field of the instance
AfterCall(self, in) == self

(* ------------------------------- inputs -------------------------------- *)

Paths == {PathUndefined, PathNull, Str("api/alt")}
RawPaths == {Str("api/raw")}
Options == {OptUndefined, OptParams, OptAccept}
Ids == {IdUndefined, IdNull, Num(0), Num(7)}
Models == {ModelUndefined, ModelNull} \cup {Model(i) : i \in Ids}
Bodies == {Model(Num(7))}
Errors == {ErrNull, ErrUndefined, ErrString("timeout"), ErrObject("Http failure response"),
           ErrObject(""), ErrPlain}

Input(s, op, path, options, id, model) ==
    [svc |-> s, op |-> op, path |-> path, options |-> options, id |-> id,
     model |-> model]
NoInput == Input("A", "none", PathUndefined, OptUndefined, IdUndefined, ModelUndefined)

\* every call of the ten public operations over the argument values above
Inputs ==
    {Input(s, op, p, o, IdUndefined, ModelUndefined) :
        s \in ServiceIds, op \in {"get", "delete"}, p \in RawPaths, o \in Options}
    \cup {Input(s, op, p, o, IdUndefined, b) :
        s \in ServiceIds, op \in {"post", "put"}, p \in RawPaths, o \in Options,
        b \in Bodies}
    \cup {Input(s, "query", p, o, IdUndefined, ModelUndefined) :
        s \in ServiceIds, p \in Paths, o \in Options}
    \cup {Input(s, "getAll", p, OptUndefined, IdUndefined, ModelUndefined) :
        s \in ServiceIds, p \in Paths}
    \cup {Input(s, op, p, o, i, ModelUndefined) :
        s \in ServiceIds, op \in {"getOne", "deleteOne"}, p \in Paths, o \in Options,
        i \in Ids}
    \cup {Input(s, op, p, o, IdUndefined, m) :
        s \in ServiceIds, op \in {"createOne", "updateOne"}, p \in Paths,
        o \in Options, m \in Models}

\* the calls an application makes in the README's component, on two services
CoreInputs ==
    {Input("A", "getAll", PathUndefined, OptUndefined, IdUndefined, ModelUndefined),
     Input("A", "createOne", PathUndefined, OptAccept, IdUndefined, Model(IdUndefined)),
     Input("A", "createOne", PathUndefined, OptUndefined, IdUndefined, Model(IdUndefined)),
     Input("B", "updateOne", PathUndefined, OptUndefined, IdUndefined, Model(Num(7))),
     Input("B", "updateOne", PathUndefined, OptUndefined, IdUndefined, ModelNull),
     Input("B", "deleteOne", PathUndefined, OptUndefined, Num(7), ModelUndefined)}
CoreErrors == {ErrObject("Http failure response"), ErrPlain, ErrNull}

\* dispatch of one call to the method it names
Invoke(self, in) ==
    CASE in.op = "get" -> get(self, in.path, in.options)
      [] in.op = "post" -> post(self, in.path, in.model, in.options)
      [] in.op = "put" -> put(self, in.path, in.model, in.options)
      [] in.op = "delete" -> delete(self, in.path, in.options)
      [] in.op = "query" -> query(in.svc, self, in.options, in.path)
      [] in.op = "getAll" -> getAll(in.svc, self, in.path)
      [] in.op = "getOne" -> getOne(in.svc, self, in.id, in.options, in.path)
      [] in.op = "createOne" -> createOne(in.svc, self, in.model, in.options, in.path)
      [] in.op = "updateOne" -> updateOne(in.svc, self, in.model, in.options, in.path)
      [] in.op = "deleteOne" -> deleteOne(in.svc, self, in.id, in.options, in.path)

(* ------------------------------ the pipe ------------------------------- *)

Event(kind, value) == [kind |-> kind, value |-> value]

\* map(response => response): the transport's value passes unchanged
PipeNext(v) == <<Event("next", v)>>

\* the transport's completion passes through
PipeComplete == <<Event("complete", NoValue)>>

\* mutant: the error is emitted as a value before the handler's failure
PipeErrorTapped(s, error) ==
    <<Event("next", error), Event("error", HandleErrorOf(s, error).value)>>

\* catchError(this.handleError): the handler's observable replaces the failed
\* source; an exception raised by the handler becomes the failure
PipeError(s, error) == <<Event("error", HandleErrorOf(s, error).value)>>

\* mutant: a shared producer, only its first subscription sends the request
OnSubscribeShared(c, sub) ==
    IF \E i \in DOMAIN subs : subs[i].call = c THEN <<>>
    ELSE <<[sub |-> sub, req |-> calls[c].req]>>

\* the transport's observable is cold: each subscription sends the request
OnSubscribe(c, sub) == <<[sub |-> sub, req |-> calls[c].req]>>

(* ------------------------------- actions ------------------------------- *)

Init ==
    /\ services = [s \in ServiceIds |-> NewService]
    /\ calls = <<>>
    /\ subs = <<>>
    /\ network = <<>>
    /\ input = NoInput

InitRequest ==
    /\ services = [s \in ServiceIds |-> NewService]
    /\ calls = <<>>
    /\ subs = <<>>
    /\ network = <<>>
    /\ input \in Inputs

\* the application calls an operation of a service
DoCall(in) ==
    /\ calls' = Append(calls, [input |-> in] @@ Invoke(services[in.svc], in))
    /\ services' = [services EXCEPT ![in.svc] = AfterCall(services[in.svc], in)]
    /\ UNCHANGED <<subs, network>>

Call ==
    /\ Len(calls) < MaxCalls
    /\ \E in \in CoreInputs : DoCall(in)
    /\ UNCHANGED input

CallInput ==
    /\ input # NoInput
    /\ DoCall(input)
    /\ input' = NoInput

\* a consumer subscribes to the producer a call returned
Subscribe ==
    /\ Len(subs) < MaxSubs
    /\ \E c \in DOMAIN calls :
          /\ calls[c].outcome = "producer"
          /\ subs' = Append(subs, [call |-> c, transport |-> "inflight", error |-> NoValue,
                                       log |-> <<>>])
          /\ network' = network \o OnSubscribe(c, Len(subs) + 1)
    /\ UNCHANGED <<services, calls, input>>

\* the transport delivers the response of an in-flight request
Respond ==
    /\ \E i \in DOMAIN subs :
          /\ subs[i].transport = "inflight"
          /\ subs' = [subs EXCEPT ![i].transport = "responded",
                                   ![i].log = @ \o PipeNext(Response)]
    /\ UNCHANGED <<services, calls, network, input>>

\* the transport completes after its single response
Complete ==
    /\ \E i \in DOMAIN subs :
          /\ subs[i].transport = "responded"
          /\ subs' = [subs EXCEPT ![i].transport = "closed",
                                   ![i].log = @ \o PipeComplete]
    /\ UNCHANGED <<services, calls, network, input>>

\* the transport fails the in-flight request of subscription i with error e
DoFail(i, e) ==
    /\ subs[i].transport = "inflight"
    /\ subs' = [subs EXCEPT ![i].transport = "failed",
                             ![i].error = e,
                             ![i].log = @ \o PipeError(calls[subs[i].call].input.svc, e)]
    /\ UNCHANGED <<services, calls, network, input>>

Fail == \E i \in DOMAIN subs, e \in CoreErrors : DoFail(i, e)

FailAny == \E i \in DOMAIN subs, e \in Errors : DoFail(i, e)

Next == Call \/ Subscribe \/ Respond \/ Complete \/ Fail

NextRequest == CallInput \/ Subscribe \/ Respond \/ Complete \/ FailAny

\* an application making several calls on two services
Spec == Init /\ [][Next]_vars

\* one call, over every operation and argument value
SpecRequest == InitRequest /\ [][NextRequest]_vars

(* ------------------------------- claims -------------------------------- *)

\* the requests subscription i has sent
Sent(i) == {n \in DOMAIN network : network[n].sub = i}

\* the subscriptions to the producer of call c
SubsOf(c) == {i \in DOMAIN subs : subs[i].call = c}

\* the path an operation addresses: the explicit path X when one is supplied,
\* else the base path P of the service
Addressed(in) == IF in.path.t = "string" THEN in.path.v ELSE getBaseUrlPath(in.svc)

\* the id an id-suffixed operation is called with
IdOf(in) == IF in.op = "updateOne" THEN in.model.id ELSE in.id

JsonOptions == Obj({<<"headers", {<<"Content-Type", "application/json">>}>>})

\* C1: getOne, deleteOne and updateOne (of a model object) return a producer
\* whose request, and every request a subscription to it sends, is a GET,
\* DELETE, PUT to (X if supplied, else P) + '/' + id when the id is a number
\* (0 included), and to (X if supplied, else P) alone when the id is null or
\* undefined.
IdOperationsUrl ==
    \A c \in DOMAIN calls :
        LET in == calls[c].input
            url == Addressed(in) \o
                   (IF IdOf(in).t = "number" THEN "/" \o ToString(IdOf(in).n) ELSE "")
            verb == CASE in.op = "getOne" -> "GET"
                      [] in.op = "deleteOne" -> "DELETE"
                      [] OTHER -> "PUT"
        IN  (in.op \in {"getOne", "deleteOne"}
               \/ (in.op = "updateOne" /\ in.model.t = "object"))
            => /\ calls[c].outcome = "producer"
               /\ calls[c].req.verb = verb
               /\ calls[c].req.url = url
               /\ \A i \in SubsOf(c) : \A n \in Sent(i) :
                     network[n].req.verb = verb /\ network[n].req.url = url

\* C1 witness: an update of a model with id 0, called without a path, has
\* been sent as a PUT to P + '/0'
IdOperationsUrlWitness ==
    \E n \in DOMAIN network :
        LET in == calls[subs[network[n].sub].call].input
        IN  /\ in.op = "updateOne" /\ in.model.t = "object" /\ in.model.id = Num(0)
            /\ in.path.t # "string"
            /\ network[n].req.url = "api/articles/0" /\ network[n].req.verb = "PUT"

\* C2: createOne(m) with no options returns a producer whose request is a
\* POST to P (to X with an explicit path) with body m and options
\* {headers: {'Content-Type': 'application/json'}}, and each subscription to
\* it sends exactly that one request.
CreateOnePost ==
    \A c \in DOMAIN calls :
        LET in == calls[c].input
            req == Request("POST", Addressed(in), in.model, JsonOptions)
        IN  (in.op = "createOne" /\ in.options.t = "undefined")
            => /\ calls[c].outcome = "producer"
               /\ calls[c].req = req
               /\ \A i \in SubsOf(c) :
                     /\ Cardinality(Sent(i)) = 1
                     /\ \A n \in Sent(i) : network[n].req = req

\* C2 witness: a createOne of a model object with no options and no path has
\* been subscribed to and its POST sent to the base path
CreateOnePostWitness ==
    \E n \in DOMAIN network :
        LET in == calls[subs[network[n].sub].call].input
        IN  /\ in.op = "createOne" /\ in.options.t = "undefined"
            /\ in.path.t = "undefined" /\ in.model.t = "object"
            /\ network[n].req.verb = "POST"
            /\ network[n].req.url = getBaseUrlPath(in.svc)

\* C3: getAll(X) returns a producer whose request is a GET to X (to P when X
\* is null or omitted) with no body and an empty options object, the request
\* of query({}, X), and each subscription sends exactly that one request.
GetAllGet ==
    \A c \in DOMAIN calls :
        LET in == calls[c].input
            req == Request("GET", Addressed(in), NoBody, EmptyObject)
        IN  in.op = "getAll"
            => /\ calls[c].outcome = "producer"
               /\ calls[c].req = req
               /\ \A i \in SubsOf(c) :
                     /\ Cardinality(Sent(i)) = 1
                     /\ \A n \in Sent(i) : network[n].req = req

\* C3 witness: a getAll on an explicit path has been subscribed to and its
\* GET sent to that path
GetAllGetWitness ==
    \E n \in DOMAIN network :
        LET in == calls[subs[network[n].sub].call].input
        IN  /\ in.op = "getAll" /\ in.path = Str("api/alt")
            /\ network[n].req.url = "api/alt"

\* the options an operation passes when the caller gives none
OptionsWhenOmitted(op) ==
    IF op \in {"createOne", "updateOne", "deleteOne"} THEN JsonOptions ELSE EmptyObject

\* C4: a supplied options object reaches the transport verbatim; omitted
\* options become {headers: {'Content-Type': 'application/json'}} for
\* createOne, updateOne, deleteOne and {} for the other operations; the raw
\* verbs pass path and body unchanged to the same-named transport verb.
OptionsVerbatim ==
    \A c \in DOMAIN calls :
        LET in == calls[c].input
            req == calls[c].req
        IN  calls[c].outcome = "producer"
            => /\ req.options = IF in.options.t = "undefined"
                                THEN OptionsWhenOmitted(in.op) ELSE in.options
               /\ in.op \in {"get", "delete"}
                     => req = Request(IF in.op = "get" THEN "GET" ELSE "DELETE",
                                      in.path.v, NoBody, req.options)
               /\ in.op \in {"post", "put"}
                     => req = Request(IF in.op = "post" THEN "POST" ELSE "PUT",
                                      in.path.v, in.model, req.options)
               /\ \A i \in SubsOf(c) : \A n \in Sent(i) : network[n].req = req

\* C4 witness: a deleteOne called with its own headers option has been sent
\* with that option alone
OptionsVerbatimWitness ==
    \E n \in DOMAIN network :
        LET in == calls[subs[network[n].sub].call].input
        IN  /\ in.op = "deleteOne" /\ in.options = OptAccept
            /\ network[n].req.options = OptAccept

\* the failure value the default handler is said to surface: error.message
\* when the error carries a (non-empty) message, else the raw error
MessageOrRaw(e) ==
    IF e.t = "object" /\ e.hasMessage /\ e.message # "" THEN ErrString(e.message) ELSE e

\* C5: under the default handleError, a subscription whose transport failed
\* with error e observes exactly one failure, error.message when the error
\* carries a message and the raw error otherwise, and no success value.
DefaultHandlerSurfacesError ==
    \A i \in DOMAIN subs :
        (subs[i].transport = "failed" /\ calls[subs[i].call].input.svc = "B")
        => subs[i].log = <<Event("error", MessageOrRaw(subs[i].error))>>

\* C6: every failure of a subscription on A is mapped by A's handleError
\* (the error forwarded) and every failure on B by B's (the default), in any
\* interleaving of failing operations on both.
HandlerPerService ==
    \A i \in DOMAIN subs :
        subs[i].transport = "failed"
        => subs[i].log =
             <<Event("error",
                     IF calls[subs[i].call].input.svc = "A"
                     THEN handleErrorForward(subs[i].error).value
                     ELSE handleError(subs[i].error).value)>>

\* C6 witness: operations on A and on B failed with the same error and their
\* callers observed different failure values
HandlerPerServiceWitness ==
    \E i, j \in DOMAIN subs :
        /\ calls[subs[i].call].input.svc = "A" /\ calls[subs[j].call].input.svc = "B"
        /\ subs[i].transport = "failed" /\ subs[j].transport = "failed"
        /\ subs[i].error = subs[j].error
        /\ subs[i].log # subs[j].log

\* C7: a subscription observes nothing yet, one success value, one success
\* value then completion, or exactly one failure; never a success followed by
\* a failure, two successes, or anything after completion or failure.
SingleEmission ==
    \A i \in DOMAIN subs :
        LET log == subs[i].log
        IN  \/ log = <<>>
            \/ Len(log) = 1 /\ log[1].kind \in {"next", "error", "complete"}
            \/ Len(log) = 2 /\ log[1].kind = "next" /\ log[2].kind = "complete"

\* C7 witness: one subscription has received its value and completed, another
\* has failed
SingleEmissionWitness ==
    \E i, j \in DOMAIN subs :
        /\ Len(subs[i].log) = 2 /\ subs[i].transport = "closed"
        /\ subs[j].transport = "failed" /\ Len(subs[j].log) = 1

\* C8: the requests sent are one per subscription: none for a producer never
\* subscribed to, and each subscription to a producer sends that producer's
\* request itself, whatever other subscriptions the producer has.
RequestPerSubscription ==
    /\ Len(network) = Len(subs)
    /\ \A i \in DOMAIN subs :
          /\ Cardinality(Sent(i)) = 1
          /\ \A n \in Sent(i) : network[n].req = calls[subs[i].call].req
    /\ \A c \in DOMAIN calls :
          Cardinality({n \in DOMAIN network : subs[network[n].sub].call = c})
              = Cardinality(SubsOf(c))

\* C8 witness: two subscriptions to one producer are in flight together, two
\* requests are out, and another producer was never subscribed to
RequestPerSubscriptionWitness ==
    \E c, d \in DOMAIN calls :
        /\ c # d /\ calls[d].outcome = "producer" /\ SubsOf(d) = {}
        /\ Cardinality(SubsOf(c)) = 2
        /\ \A i \in SubsOf(c) : subs[i].transport = "inflight"
        /\ Len(network) = 2

\* C9: no call throws synchronously: every call, with any argument values,
\* returns a producer.
NoSynchronousThrow ==
    \A c \in DOMAIN calls : calls[c].outcome = "producer"

\* C10: no call changes a service instance (transport reference, default
\* headers), and the result of every call is the one the same call gives as
\* the first call on a new instance.
Stateless ==
    /\ services = [s \in ServiceIds |-> NewService]
    /\ \A c \in DOMAIN calls :
          calls[c] = [input |-> calls[c].input] @@ Invoke(NewService, calls[c].input)

\* C10 witness: on one service, a createOne with its own headers option was
\* sent and failed, and a later createOne without options was made
StatelessWitness ==
    \E c, d \in DOMAIN calls :
        /\ c < d
        /\ calls[c].input.svc = calls[d].input.svc
        /\ calls[c].input.op = "createOne" /\ calls[c].input.options = OptAccept
        /\ \E i \in SubsOf(c) : subs[i].transport = "failed"
        /\ calls[d].input.op = "createOne" /\ calls[d].input.options.t = "undefined"
        /\ calls[d].req.options = JsonOptions

====
